---- MODULE Spec2Model ----
(***************************************************************************)
(* A model of benchcmp (src/main.go): resolving the two git refs, building *)
(* (or finding in the cache) the benchmark binaries of each ref, running   *)
(* the binaries common to both in an interleaved order, and reporting.     *)
(*                                                                         *)
(* Strings are Go strings.  Paths are sequences of path components.  The   *)
(* helpers that main.go calls but does not define (git and go wrappers,    *)
(* path helpers) are modelled from the specification's description of      *)
(* them; each is marked below.                                             *)
(***************************************************************************)
EXTENDS Integers, Sequences, FiniteSets, TLC

\* ------------------------------------------------------------------ bounds

\* Largest --count value tried (itersPerTest ranges over -1..MaxIters).
MaxIters == 2
\* Largest number of positional package patterns on the command line.
MaxArgs == 2

\* ------------------------------------------------------- the git repository

\* The history is the chain 1 <- 2 <- 3; commit 1 is the root.
Commits == {1, 2, 3}
NoCommit == 0
ParentOf(c) == c - 1
FullHash == <<"1111aaaa", "2222bbbb", "3333cccc">>
ShortHash == <<"1111", "2222", "3333">>
Branches == {"main"}
TipOf(b) == CASE b = "main" -> 3

\* The commit a checked-out ref (a branch name or a short hash) stands for.
CommitOfHead(h) ==
  IF h \in Branches THEN TipOf(h)
  ELSE IF \E c \in Commits : ShortHash[c] = h
       THEN CHOOSE c \in Commits : ShortHash[c] = h
       ELSE NoCommit

\* git rev-parse: the commit a ref name stands for while `h` is checked out.
Resolve(name, h) ==
  IF name = "HEAD" THEN CommitOfHead(h)
  ELSE IF name \in Branches THEN TipOf(name)
  ELSE IF \E c \in Commits : name \in {FullHash[c], ShortHash[c]}
       THEN CHOOSE c \in Commits : name \in {FullHash[c], ShortHash[c]}
       ELSE NoCommit

\* getCurRef: the full hash of the checked-out revision.
getCurRef(h) == FullHash[CommitOfHead(h)]

\* shortenRef: the canonical short form; a name git cannot resolve is kept.
shortenRef(ref, h) ==
  IF Resolve(ref, h) # NoCommit THEN ShortHash[Resolve(ref, h)] ELSE ref

\* checkValidRef: whether the revision store knows the ref.
checkValidRef(ref, h) == Resolve(ref, h) # NoCommit

\* getPrevRef: ref~, the full hash of the immediate parent; "" when git
\* fails because the commit has no parent.
getPrevRef(ref, h) ==
  IF Resolve(ref, h) # NoCommit /\ ParentOf(Resolve(ref, h)) \in Commits
  THEN FullHash[ParentOf(Resolve(ref, h))]
  ELSE ""

\* getCurSymbolicRef: the branch HEAD points to, and whether there is one.
getCurSymbolicRef(h) ==
  IF h \in Branches THEN [ref |-> h, ok |-> TRUE] ELSE [ref |-> "", ok |-> FALSE]

\* -------------------------------------------------------- strings, sorting

\* The bytes of each string the model sorts.
Chars(s) ==
  CASE s = "./pkg/a" -> <<46, 47, 112, 107, 103, 47, 97>>
    [] s = "./pkg/b" -> <<46, 47, 112, 107, 103, 47, 98>>
    [] s = "pkg_a"   -> <<112, 107, 103, 95, 97>>
    [] s = "pkg_ab"  -> <<112, 107, 103, 95, 97, 98>>
    [] s = "pkg_b"   -> <<112, 107, 103, 95, 98>>

\* Go's string order: byte-wise lexicographic, a proper prefix first.
RECURSIVE BytesLess(_, _)
BytesLess(x, y) ==
  IF y = <<>> THEN FALSE
  ELSE IF x = <<>> THEN TRUE
  ELSE IF Head(x) # Head(y) THEN Head(x) < Head(y)
  ELSE BytesLess(Tail(x), Tail(y))

StrLess(s, t) == BytesLess(Chars(s), Chars(t))

RECURSIVE InsertSorted(_, _)
InsertSorted(x, s) ==
  IF s = <<>> THEN <<x>>
  ELSE IF StrLess(x, Head(s)) THEN <<x>> \o s
  ELSE <<Head(s)>> \o InsertSorted(x, Tail(s))

\* sort.Strings: the sequence in ascending order (duplicates kept).
RECURSIVE SortStrings(_)
SortStrings(s) ==
  IF s = <<>> THEN <<>> ELSE InsertSorted(Head(s), SortStrings(Tail(s)))

\* Every order in which a Go map with key set S may be iterated.
RECURSIVE Orders(_)
Orders(S) ==
  IF S = {} THEN {<<>>}
  ELSE UNION {{<<x>> \o o : o \in Orders(S \ {x})} : x \in S}

Range(s) == {s[i] : i \in 1..Len(s)}

\* ------------------------------------------------------- packages, binaries

Patterns == {"./pkg/a", "./pkg/b"}
Bins == {"pkg_a", "pkg_b"}
\* Names that may lie in a bin directory left by an earlier run.
Names == {"pkg_a", "pkg_ab", "pkg_b"}

\* The package a pattern expands to (go list).
PackageOf(pat) == CASE pat = "./pkg/a" -> "pkg/a" [] pat = "./pkg/b" -> "pkg/b"

\* expandPackages: the packages of the patterns, in the patterns' order.
expandPackages(pkgFilter) ==
  [i \in 1..Len(pkgFilter) |-> PackageOf(pkgFilter[i])]

\* The file name of a package's test binary.
pkgToTestBin(pkg) == CASE pkg = "pkg/a" -> "pkg_a" [] pkg = "pkg/b" -> "pkg_b"

\* Whether the package has tests to compile in the given commit's tree:
\* pkg/b has none in commit 1.
HasBench(c, pkg) == ~(c = 1 /\ pkg = "pkg/b")

\* All sequences over S of length 0..n.
SeqsUpTo(S, n) == UNION {[1..k -> S] : k \in 0..n}

\* ------------------------------------------------------------- file system

\* testArtifactsDir: ./benchcmp/<ref>/artifacts
testArtifactsDir(ref) == <<"benchcmp", ref, "artifacts">>

\* The hash of the package scope: a polynomial hash of the patterns' bytes,
\* each pattern followed by a separator byte.
RECURSIVE HashBytes(_, _)
HashBytes(h, bytes) ==
  IF bytes = <<>> THEN h
  ELSE HashBytes((h * 31 + Head(bytes)) % 65521, Tail(bytes))

RECURSIVE HashScope(_, _)
HashScope(h, pkgFilter) ==
  IF pkgFilter = <<>> THEN h
  ELSE HashScope(HashBytes(h, Chars(Head(pkgFilter)) \o <<32>>), Tail(pkgFilter))

\* testBinDir: ./benchcmp/<ref>/bin/<hash(pkgFilter)>
testBinDir(ref, pkgFilter) == [ref |-> ref, hash |-> HashScope(7, pkgFilter)]
NoPath == [ref |-> "", hash |-> 0]

\* A bin directory: whether it exists, its regular files, its subdirectories.
NoDir == [exists |-> FALSE, files |-> {}, dirs |-> {}]
EmptyDir == [exists |-> TRUE, files |-> {}, dirs |-> {}]
\* What an earlier run may have left at a bin directory's path.
PreExisting ==
  {NoDir, [exists |-> TRUE, files |-> Bins, dirs |-> {"pkg_ab"}]}
    \cup {[exists |-> TRUE, files |-> F, dirs |-> {}] : F \in SUBSET Bins}

\* ioutil.ReadDir: the entries sorted by file name.
ReadDir(d) ==
  LET all == CHOOSE o \in Orders(d.files \cup d.dirs) : TRUE
  IN  SortStrings(all)

\* ------------------------------------------------------------------- state

VARIABLES
  head,         \* git: the checked-out ref, a branch name or a short hash
  binDirs,      \* disk: the bin directories looked at so far, by path
  artDirs,      \* disk: the artifact directories created
  outFiles,     \* disk: the content of each output file created, by path
  pc,           \* main/run: where the process is
  exitCode,     \* main: the process's exit code, -1 while it runs
  oldRef, newRef,   \* run: --old and --new, then the resolved refs
  defaulted,    \* which of the two refs were not given on the command line
  pkgFilter,    \* run: the positional arguments, sorted at line 95
  postChck,     \* run: --post-checkout, settled when first read (line 117)
  itersPerTest, \* run: --count, settled when first read (line 123)
  suites,       \* run: oldSuite and newSuite
  runErr,       \* run: the error being returned
  restoreRef,   \* buildBenches: the ref of the deferred checkout, "" if none
  bi,           \* buildBenches: the index into bss
  bpc,          \* build: where the call is
  cur,          \* build: the receiver, "old" or "new"
  created,      \* build: the rollback of line 336 is registered
  err,          \* build: the named result
  pkgs,         \* build: the expanded packages
  pkgIdx,       \* build: the index into pkgs
  common,       \* run: the fileSet intersectTests returned (line 122)
  tests,        \* runbenchcmpes: the sorted tests
  ti, tj, side, \* runbenchcmpes: i, j and which suite runs next
  lastExit,     \* runSingleBench: how the last binary run ended
  log,          \* what the process did, in order
  prev,         \* the build call before the current one, as it returned
  argv,         \* the positional arguments as the user gave them
  origHead      \* git: the ref checked out when the process started

worldVars == <<head, binDirs, artDirs, outFiles>>
flagVars == <<oldRef, newRef, defaulted, pkgFilter, postChck, itersPerTest>>
buildVars == <<bpc, cur, created, err, pkgs, pkgIdx>>
runVars == <<common, tests, ti, tj, side, lastExit>>
vars == <<head, binDirs, artDirs, outFiles, pc, exitCode, oldRef, newRef,
          defaulted, pkgFilter, postChck, itersPerTest, suites, runErr,
          restoreRef, bi, bpc, cur, created, err, pkgs, pkgIdx, tests, ti, tj,
          side, lastExit, log, common, prev, argv, origHead>>

NoErr == ""
Suites == {"old", "new"}
Event(op, a, b) == [op |-> op, a |-> a, b |-> b]

\* No build call has returned yet.
NoCall ==
  [suite |-> "", ref |-> "", argv |-> <<>>, binDir |-> NoPath,
   created |-> FALSE, err |-> NoErr, testFiles |-> {}]

\* makeBenchSuite
makeBenchSuite(ref) ==
  [ref |-> ref, artDir |-> <<>>, outFile |-> <<>>, outOff |-> 0,
   binDir |-> NoPath,
   testFiles |-> {}]

\* ------------------------------------------------------------ ref resolving

\* The git commands parseGitRefs runs, any one of which may fail.
GitCalls == {"getCurRef", "checkValidRef new", "getPrevRef", "checkValidRef old"}

\* A variant of parseGitRefs whose default for oldRef is the parent of HEAD
\* rather than the parent of newRef.
parseGitRefsPrevOfHead(o, n, h, f) ==
  LET fail(e, c) == [old |-> "", new |-> "", err |-> e, calls |-> c]
      n1 == IF n = "" THEN getCurRef(h) ELSE n
      n2 == shortenRef(n1, h)
      o1 == IF o = "" THEN getPrevRef("HEAD", h) ELSE o
      o2 == shortenRef(o1, h)
      c1 == IF n = "" THEN <<"getCurRef">> ELSE <<>>
      c2 == c1 \o <<"shortenRef new", "checkValidRef new">>
      c3 == c2 \o (IF o = "" THEN <<"getPrevRef">> ELSE <<>>)
      c4 == c3 \o <<"shortenRef old", "checkValidRef old">>
  IN  IF n = "" /\ f = "getCurRef" THEN fail("git error", c1)
      ELSE IF f = "checkValidRef new" THEN fail("git error", c2)
      ELSE IF ~checkValidRef(n2, h) THEN fail("invalid git ref", c2)
      ELSE IF o = "" /\ (f = "getPrevRef" \/ o1 = "")
      THEN fail("git error", c3)
      ELSE IF f = "checkValidRef old" THEN fail("git error", c4)
      ELSE IF ~checkValidRef(o2, h) THEN fail("invalid git ref", c4)
      ELSE [old |-> o2, new |-> n2, err |-> NoErr, calls |-> c4]

\* A variant of parseGitRefs that takes a ref git does not know as valid.
parseGitRefsNoValidate(o, n, h, f) ==
  LET n2 == shortenRef(IF n = "" THEN getCurRef(h) ELSE n, h)
      o1 == IF o = "" THEN getPrevRef(n2, h) ELSE o
  IN  [old |-> shortenRef(o1, h), new |-> n2, err |-> NoErr,
       calls |-> <<"shortenRef new", "shortenRef old">>]

\* parseGitRefs(oldRef, newRef) while `h` is checked out; `f` is the git call
\* that fails for a reason of its own, "" when none does.  `calls` are the
\* git helpers called, in order.
parseGitRefs(o, n, h, f) ==
  LET fail(e, c) == [old |-> "", new |-> "", err |-> e, calls |-> c]
      n1 == IF n = "" THEN getCurRef(h) ELSE n
      n2 == shortenRef(n1, h)
      o1 == IF o = "" THEN getPrevRef(n2, h) ELSE o
      o2 == shortenRef(o1, h)
      c1 == IF n = "" THEN <<"getCurRef">> ELSE <<>>
      c2 == c1 \o <<"shortenRef new", "checkValidRef new">>
      c3 == c2 \o (IF o = "" THEN <<"getPrevRef">> ELSE <<>>)
      c4 == c3 \o <<"shortenRef old", "checkValidRef old">>
  IN  IF n = "" /\ f = "getCurRef" THEN fail("git error", c1)
      ELSE IF f = "checkValidRef new" THEN fail("git error", c2)
      ELSE IF ~checkValidRef(n2, h) THEN fail("invalid git ref", c2)
      ELSE IF o = "" /\ (f = "getPrevRef" \/ o1 = "")
      THEN fail("git error", c3)
      ELSE IF f = "checkValidRef old" THEN fail("git error", c4)
      ELSE IF ~checkValidRef(o2, h) THEN fail("invalid git ref", c4)
      ELSE [old |-> o2, new |-> n2, err |-> NoErr, calls |-> c4]

\* --------------------------------------------------------------- main, run

\* The values --old and --new take.
RefArgs == {"", "main", FullHash[1], FullHash[2], "bogus"}

InitWorld ==
  /\ head \in {"main", ShortHash[2]}
  /\ origHead = head
  /\ binDirs = << >>
  /\ artDirs = {}
  /\ outFiles = << >>

InitIdle ==
  /\ exitCode = -1
  /\ defaulted = {}
  /\ suites = [s \in Suites |-> makeBenchSuite("")]
  /\ runErr = NoErr
  /\ restoreRef = ""
  /\ bi = 1
  /\ bpc = "idle"
  /\ cur = "old"
  /\ created = FALSE
  /\ err = NoErr
  /\ pkgs = <<>>
  /\ pkgIdx = 1
  /\ common = {}
  /\ tests = <<>>
  /\ ti = 1
  /\ tj = 0
  /\ side = "old"
  /\ lastExit = [started |-> TRUE, code |-> 0]
  /\ log = <<>>
  /\ prev = NoCall

\* The process starts: pflag.Parse has set the flags (lines 78-86).
Init ==
  /\ InitWorld
  /\ InitIdle
  /\ pc = "start"
  /\ oldRef \in RefArgs
  /\ newRef \in RefArgs
  /\ pkgFilter \in SeqsUpTo(Patterns, MaxArgs)
  /\ argv = pkgFilter
  /\ postChck = ""
  /\ itersPerTest = 0

\* A variant of sortScope that leaves the arguments in the order given.
sortScopeNone(prArgs) == prArgs

\* run, lines 94-95: pkgFilter := prArgs; sort.Strings(pkgFilter)
sortScope(prArgs) == SortStrings(prArgs)

\* run, lines 88-95: help when asked for or when no package is given, else
\* sort the scope.
RunStart ==
  /\ pc = "start"
  /\ \E help \in BOOLEAN :
       IF help \/ Len(pkgFilter) = 0
       THEN /\ pc' = "return"
            /\ log' = Append(log, Event("help", "", ""))
            /\ UNCHANGED pkgFilter
       ELSE /\ pc' = "parse"
            /\ pkgFilter' = sortScope(pkgFilter)
            /\ UNCHANGED log
  /\ UNCHANGED <<worldVars, exitCode, prev, argv, origHead, oldRef, newRef,
                 defaulted, postChck, itersPerTest, suites, runErr,
                 restoreRef, bi, buildVars, runVars>>

\* run, lines 97-102: parse the git refs.
ParseRefs ==
  /\ pc = "parse"
  /\ \E f \in GitCalls \cup {""} :
       LET r == parseGitRefs(oldRef, newRef, head, f)
       IN  /\ oldRef' = r.old
           /\ newRef' = r.new
           /\ runErr' = r.err
           /\ pc' = IF r.err # NoErr THEN "return" ELSE "suites"
           /\ log' = log \o [i \in 1..Len(r.calls) |->
                               Event("git", r.calls[i], "")]
  /\ defaulted' = {s \in Suites : (IF s = "old" THEN oldRef ELSE newRef) = ""}
  /\ UNCHANGED <<worldVars, exitCode, prev, argv, origHead, pkgFilter,
                 postChck, itersPerTest, suites, restoreRef, bi, buildVars,
                 runVars>>

\* run, lines 104-116: with --sheets connect to the service, which may
\* fail; make the suites; their closes are deferred.
MakeSuites ==
  /\ pc = "suites"
  /\ \E sheets \in {"off", "ok", "fails"} :
       IF sheets = "fails"
       THEN /\ runErr' = "google error"
            /\ pc' = "return"
            /\ UNCHANGED suites
       ELSE /\ suites' = [s \in Suites |->
                            makeBenchSuite(IF s = "old" THEN oldRef
                                           ELSE newRef)]
            /\ pc' = "buildBenches"
            /\ UNCHANGED runErr
  /\ UNCHANGED <<worldVars, exitCode, prev, argv, origHead, flagVars,
                 restoreRef, bi, buildVars, runVars, log>>

\* A variant of exitStatus that reports success whatever run returned.
exitStatusZero(e) == 0

\* main, lines 67-70: os.Exit(1) when run returned an error.
exitStatus(e) == IF e # NoErr THEN 1 ELSE 0

\* main, lines 66-71: exit 1 when run returned an error, else 0.
MainExit ==
  /\ pc = "return"
  /\ pc' = "exited"
  /\ exitCode' = exitStatus(runErr)
  /\ UNCHANGED <<worldVars, flagVars, suites, runErr, restoreRef, bi,
                 buildVars, runVars, log, prev, argv, origHead>>

\* ------------------------------------------------------------------- build

\* checkoutRef(ref, postChck): git checkout, then the post-checkout command
\* when one is given.  Either may fail.
CheckoutOutcomes(hook) ==
  {"ok", "checkout failed"} \cup (IF hook # "" THEN {"hook failed"} ELSE {})

\* The checked-out ref after checkoutRef(ref, _) ended with outcome `out`.
HeadAfter(h, ref, out) == IF out = "checkout failed" THEN h ELSE ref

\* getOutputFile: ./benchcmp/<ref>/artifacts/out.<time>
getOutputFile(artDir, t) == artDir \o <<"out", t>>

\* os.OpenFile with O_RDWR|O_CREATE (line 308): the file is created empty
\* when there is none; one that exists keeps its content.
OpenFile(files, file) ==
  [f \in DOMAIN files \cup {file} |->
     IF f \in DOMAIN files THEN files[f] ELSE <<>>]

\* A write of one chunk through a handle whose offset is `off`: it replaces
\* what the file holds there, or extends the file.
WriteAt(content, off, chunk) ==
  IF off < Len(content) THEN [content EXCEPT ![off + 1] = chunk]
  ELSE content \o <<chunk>>

\* os.Stat on a bin directory: what the disk holds there.  A path the model
\* has not looked at yet holds whatever an earlier run left.
StatDir(path) ==
  IF path \in DOMAIN binDirs THEN {binDirs[path]} ELSE PreExisting

\* The disk with bin directory `path` holding `d`.
WriteDir(disk, path, d) ==
  [p \in DOMAIN disk \cup {path} |-> IF p = path THEN d ELSE disk[p]]

\* os.RemoveAll
RemoveAll(disk, path) == WriteDir(disk, path, NoDir)

\* A variant of ScanDir that skips the subdirectories.
ScanDirSkipDirs(entries, d, acc) ==
  [files |-> acc \cup ({entries[i] : i \in 1..Len(entries)} \ d.dirs),
   err |-> NoErr]

\* A variant of ScanDir that registers no file of a directory it finds.
ScanDirNothing(entries, d, acc) == [files |-> acc, err |-> NoErr]

\* build, lines 321-327: register the entries in order up to a directory.
RECURSIVE ScanDir(_, _, _)
ScanDir(entries, d, acc) ==
  IF entries = <<>> THEN [files |-> acc, err |-> NoErr]
  ELSE IF Head(entries) \in d.dirs
       THEN [files |-> acc, err |-> "unexpected directory"]
       ELSE ScanDir(Tail(entries), d, acc \cup {Head(entries)})

\* buildTestBin(pkg, binDir) in the checked-out tree `h`: go test -c writes
\* the binary when the package compiles and has tests.
buildTestBin(pkg, h, compiles) ==
  [testBin |-> pkgToTestBin(pkg),
   ok |-> compiles /\ HasBench(CommitOfHead(h), pkg),
   err |-> IF compiles THEN NoErr ELSE "build failed"]

\* A variant of Return whose removal of the bin directory does not depend on
\* this call having made it.
ReturnAlwaysRollback(e, disk, lg) ==
  /\ err' = e
  /\ bpc' = "returned"
  /\ IF e # NoErr
     THEN /\ binDirs' = WriteDir(disk, testBinDir(suites[cur].ref, pkgFilter),
                                 NoDir)
          /\ log' = Append(lg, Event("rmbin", cur, ""))
     ELSE /\ binDirs' = disk
          /\ log' = lg

\* A variant of Return without the deferred removal of the bin directory.
ReturnNoRollback(e, disk, lg) ==
  /\ err' = e
  /\ bpc' = "returned"
  /\ binDirs' = disk
  /\ log' = lg

\* build returns `e`: the deferred function of lines 336-340 removes the bin
\* directory when it is registered and the result is an error.
Return(e, disk, lg) ==
  /\ err' = e
  /\ bpc' = "returned"
  /\ IF created /\ e # NoErr
     THEN /\ binDirs' = RemoveAll(disk, suites[cur].binDir)
          /\ log' = Append(lg, Event("rmbin", cur, ""))
     ELSE /\ binDirs' = disk
          /\ log' = lg

\* build, lines 296-311: the already-built check, the artifacts directory,
\* the output file.
BuildOpen ==
  /\ bpc = "entry"
  /\ IF suites[cur].testFiles # {}
     THEN /\ bpc' = "panicked"
          /\ UNCHANGED <<artDirs, outFiles, suites, err, log>>
     ELSE \E io \in {"ok", "mkdir fails", "open fails"} :
            LET dir == testArtifactsDir(suites[cur].ref)
                file == getOutputFile(dir, "now")
            IN  /\ artDirs' = IF io = "mkdir fails" THEN artDirs
                              ELSE artDirs \cup {dir}
                /\ outFiles' = IF io = "ok" THEN OpenFile(outFiles, file)
                               ELSE outFiles
                /\ suites' = [suites EXCEPT
                     ![cur].artDir = dir,
                     ![cur].outFile = IF io = "ok" THEN file ELSE <<>>,
                     ![cur].outOff = 0]
                /\ err' = IF io = "ok" THEN NoErr ELSE io
                /\ bpc' = IF io = "ok" THEN "stat" ELSE "returned"
                /\ log' = log
                     \o (IF io = "mkdir fails" THEN <<>>
                         ELSE <<Event("mkdir", cur, "")>>)
                     \o (IF io = "ok" THEN <<Event("open", cur, file)>>
                         ELSE <<>>)
  /\ UNCHANGED <<head, binDirs, pc, exitCode, prev, argv, origHead, flagVars,
                 runErr, restoreRef, bi, cur, created, pkgs, pkgIdx, runVars>>

\* build, lines 313-333: the bin directory; a cache hit registers its files.
BuildStat ==
  /\ bpc = "stat"
  /\ LET path == testBinDir(suites[cur].ref, pkgFilter)
     IN  \E d \in StatDir(path), io \in {"ok", "stat fails", "io fails"} :
           LET seen == WriteDir(binDirs, path, d)
               scan == ScanDir(ReadDir(d), d, suites[cur].testFiles)
               lg == Append(log, Event("stat", cur, ""))
           IN  IF io = "stat fails"
               THEN /\ Return("looking for test directory", binDirs, lg)
                    /\ suites' = [suites EXCEPT ![cur].binDir = path]
                    /\ UNCHANGED created
               ELSE IF d.exists
               THEN /\ IF io = "io fails"
                       THEN /\ Return("readdir failed", seen, lg)
                            /\ suites' = [suites EXCEPT ![cur].binDir = path]
                       ELSE /\ Return(scan.err, seen, lg)
                            /\ suites' = [suites EXCEPT
                                 ![cur].binDir = path,
                                 ![cur].testFiles = scan.files]
                    /\ UNCHANGED created
               ELSE /\ suites' = [suites EXCEPT ![cur].binDir = path]
                    /\ IF io = "io fails"
                       THEN /\ Return("mkdir failed", seen, lg)
                            /\ UNCHANGED created
                       ELSE /\ binDirs' = WriteDir(binDirs, path, EmptyDir)
                            /\ created' = TRUE
                            /\ bpc' = "checkout"
                            /\ log' = Append(lg, Event("mkdirbin", cur, ""))
                            /\ UNCHANGED err
  /\ UNCHANGED <<head, artDirs, outFiles, pc, exitCode, prev, argv, origHead,
                 flagVars, runErr, restoreRef, bi, cur, pkgs, pkgIdx,
                 runVars>>

\* build, lines 342-345: check out the suite's ref.
BuildCheckout ==
  /\ bpc = "checkout"
  /\ \E out \in CheckoutOutcomes(postChck) :
       LET lg == Append(log, Event("checkout", suites[cur].ref, out))
       IN  /\ head' = HeadAfter(head, suites[cur].ref, out)
           /\ IF out # "ok"
              THEN Return(out, binDirs, lg)
              ELSE /\ bpc' = "expand"
                   /\ log' = lg
                   /\ UNCHANGED <<binDirs, err>>
  /\ UNCHANGED <<artDirs, outFiles, pc, exitCode, prev, argv, origHead,
                 flagVars, suites, runErr, restoreRef, bi, cur, created, pkgs,
                 pkgIdx, runVars>>

\* build, lines 348-351: expand the package patterns.
BuildExpand ==
  /\ bpc = "expand"
  /\ \E ok \in BOOLEAN :
       IF ok
       THEN /\ pkgs' = expandPackages(pkgFilter)
            /\ pkgIdx' = 1
            /\ bpc' = "pkgs"
            /\ UNCHANGED <<binDirs, err, log>>
       ELSE /\ Return("expand failed", binDirs, log)
            /\ UNCHANGED <<pkgs, pkgIdx>>
  /\ UNCHANGED <<head, artDirs, outFiles, pc, exitCode, prev, argv, origHead,
                 flagVars, suites, runErr, restoreRef, bi, cur, created,
                 runVars>>

\* build, lines 356-365: build the next package's test binary, or return
\* when none is left.
BuildPkg ==
  /\ bpc = "pkgs"
  /\ IF pkgIdx > Len(pkgs)
     THEN /\ Return(NoErr, binDirs, log)
          /\ UNCHANGED <<suites, pkgIdx>>
     ELSE \E compiles \in BOOLEAN :
            LET pkg == pkgs[pkgIdx]
                r == buildTestBin(pkg, head, compiles)
                path == suites[cur].binDir
                lg == Append(log, Event("compile", cur, pkg))
                disk == IF r.ok
                        THEN WriteDir(binDirs, path,
                               [binDirs[path] EXCEPT
                                  !.files = @ \cup {r.testBin}])
                        ELSE binDirs
            IN  IF r.err # NoErr
                THEN /\ Return(r.err, disk, lg)
                     /\ UNCHANGED <<suites, pkgIdx>>
                ELSE /\ suites' = IF r.ok
                          THEN [suites EXCEPT
                                  ![cur].testFiles = @ \cup {r.testBin}]
                          ELSE suites
                     /\ pkgIdx' = pkgIdx + 1
                     /\ binDirs' = disk
                     /\ log' = lg
                     /\ UNCHANGED <<bpc, err>>
  /\ UNCHANGED <<head, artDirs, outFiles, pc, exitCode, prev, argv, origHead,
                 flagVars, runErr, restoreRef, bi, cur, created, pkgs,
                 runVars>>

BuildStep == BuildOpen \/ BuildStat \/ BuildCheckout \/ BuildExpand \/ BuildPkg

\* ------------------------------------------------------------ buildBenches

\* A variant of bss with the suites in the other order.
bssReversed == <<"new", "old">>

\* The suites buildBenches is given, in order (line 117).
bss == <<"old", "new">>

\* A variant of deferredRef that defers no checkout.
deferredRefNone(r) == ""

\* buildBenches, lines 172-176: the ref whose checkout is deferred, "" when
\* HEAD is on no branch.
deferredRef(r) == IF r.ok THEN r.ref ELSE ""

\* buildBenches, lines 171-177: remember the branch to revert to.
BuildBenchesStart ==
  /\ pc = "buildBenches"
  /\ \E ok \in BOOLEAN :
       LET r == getCurSymbolicRef(head)
       IN  IF ok
           THEN /\ restoreRef' = deferredRef(r)
                /\ pc' = "buildLoop"
                /\ UNCHANGED runErr
           ELSE /\ runErr' = "git error"
                /\ pc' = "close"
                /\ UNCHANGED restoreRef
  /\ postChck' \in {"", "make buildshort"}
  /\ bi' = 1
  /\ UNCHANGED <<worldVars, exitCode, prev, argv, origHead, oldRef, newRef,
                 defaulted, pkgFilter, itersPerTest, suites, buildVars,
                 runVars, log>>

\* buildBenches, lines 178-183: call build on the next suite, or return.
BuildCall ==
  /\ pc = "buildLoop"
  /\ bpc = "idle"
  /\ IF bi > Len(bss)
     THEN /\ pc' = "restore"
          /\ UNCHANGED <<bpc, cur, created, err, pkgs, pkgIdx, log>>
     ELSE /\ cur' = bss[bi]
          /\ bpc' = "entry"
          /\ created' = FALSE
          /\ err' = NoErr
          /\ pkgs' = <<>>
          /\ pkgIdx' = 1
          /\ log' = Append(log, Event("build", bss[bi], ""))
          /\ UNCHANGED pc
  /\ UNCHANGED <<worldVars, exitCode, prev, argv, origHead, flagVars, suites,
                 runErr, restoreRef, bi, runVars>>

\* buildBenches, lines 179-181: build returned.
BuildReturned ==
  /\ pc = "buildLoop"
  /\ bpc = "returned"
  /\ bpc' = "idle"
  /\ log' = Append(log, Event("built", cur, err))
  /\ IF err # NoErr
     THEN /\ runErr' = err
          /\ pc' = "restore"
          /\ UNCHANGED bi
     ELSE /\ bi' = bi + 1
          /\ UNCHANGED <<runErr, pc>>
  /\ UNCHANGED <<worldVars, exitCode, prev, argv, origHead, flagVars, suites,
                 restoreRef, cur, created, err, pkgs, pkgIdx, runVars>>

\* buildBenches, line 175: the deferred checkoutRef(ref, ""), its error
\* dropped; then run goes on (line 117).
Restore ==
  /\ pc = "restore"
  /\ IF restoreRef # ""
     THEN \E out \in CheckoutOutcomes("") :
            /\ head' = HeadAfter(head, restoreRef, out)
            /\ log' = Append(log, Event("restore", restoreRef, out))
     ELSE UNCHANGED <<head, log>>
  /\ pc' = IF runErr # NoErr THEN "close" ELSE "intersect"
  /\ UNCHANGED <<binDirs, artDirs, outFiles, exitCode, prev, argv, origHead,
                 flagVars, suites, runErr, restoreRef, bi, buildVars,
                 runVars>>

\* ------------------------------------------------------------ running

\* A variant of IntersectLoop that looks each file up in the receiver's own
\* map instead of bs2's.
IntersectLoopSelf(order, testFiles2, intersect) ==
  intersect \cup {order[i] : i \in 1..Len(order)}

\* intersectTests, lines 383-387: the loop over the receiver's map, which
\* Go iterates in the order `order`.
RECURSIVE IntersectLoop(_, _, _)
IntersectLoop(order, testFiles2, intersect) ==
  IF order = <<>> THEN intersect
  ELSE IntersectLoop(Tail(order), testFiles2,
         IF Head(order) \in testFiles2
         THEN intersect \cup {Head(order)} ELSE intersect)

\* A variant of intersectTests that returns the files of either suite.
intersectTestsUnion(order, testFiles, testFiles2) ==
  [intersect |-> testFiles \cup testFiles2,
   testFiles |-> testFiles,
   testFiles2 |-> testFiles2]

\* bs.intersectTests(bs2): the fileSet returned, and both suites' testFiles
\* as the call leaves them.
intersectTests(order, testFiles, testFiles2) ==
  [intersect |-> IntersectLoop(order, testFiles2, {}),
   testFiles |-> testFiles,
   testFiles2 |-> testFiles2]

\* A variant of sorted without the sort.Strings call.
sortedUnsorted(order) == order

\* fileSet.sorted: the map is iterated in the order `order`, then sorted.
sorted(order) == SortStrings(order)

\* run, line 123: runbenchcmpes is given the old suite, then the new one.
bs1 == "old"
bs2 == "new"

\* A variant of StepAfter that counts an iteration after either suite's run.
StepAfterCountBoth(s, j) ==
  [side |-> IF s = "old" THEN "new" ELSE "old", tj |-> j + 1]

\* A variant of StepAfter that never hands over to the other suite.
StepAfterNoSwitch(s, j) == [side |-> s, tj |-> j + 1]

\* runbenchcmpes, lines 202-208: after bs1's run comes bs2's, after bs2's
\* the next iteration.
StepAfter(s, j) ==
  IF s = bs1 THEN [side |-> bs2, tj |-> j] ELSE [side |-> bs1, tj |-> j + 1]

\* run, lines 122-123: the tests of both suites, sorted.
Intersect ==
  /\ pc = "intersect"
  /\ \E o1 \in Orders(suites["old"].testFiles) :
       LET r == intersectTests(o1, suites["old"].testFiles,
                               suites["new"].testFiles)
       IN  /\ common' = r.intersect
           /\ suites' = [suites EXCEPT !["old"].testFiles = r.testFiles,
                                       !["new"].testFiles = r.testFiles2]
           /\ \E o2 \in Orders(r.intersect) : tests' = sorted(o2)
  /\ itersPerTest' \in -1..MaxIters
  /\ ti' = 1
  /\ tj' = 0
  /\ side' = bs1
  /\ pc' = "run"
  /\ UNCHANGED <<worldVars, exitCode, prev, argv, origHead, oldRef, newRef,
                 defaulted, pkgFilter, postChck, runErr, restoreRef, bi,
                 buildVars, lastExit, log>>

\* How a started binary may end, and a binary that cannot be started.
ExitOutcomes ==
  {[started |-> TRUE, code |-> c] : c \in {0, 1, 2, -1}}
    \cup {[started |-> FALSE, code |-> 0]}

\* A variant of runSingleBench that tolerates every exit code.
runSingleBenchAnyExit(out) == IF out.started THEN NoErr ELSE "error running"

\* runSingleBench, lines 239-251: the error for the way the binary ended.
runSingleBench(out) ==
  IF out.started /\ out.code = 0 THEN NoErr
  ELSE IF out.started
       THEN IF out.code = 1 THEN NoErr ELSE "error running (exit)"
       ELSE "error running"

\* runbenchcmpes, lines 193-208: one runSingleBench of the inner loop.
RunSingleBench ==
  /\ pc = "run"
  /\ ti <= Len(tests)
  /\ tj < itersPerTest
  /\ log' = Append(log, Event("exec", side, tests[ti]))
  /\ \E out \in ExitOutcomes :
       /\ lastExit' = out
       /\ IF out.started
          THEN /\ outFiles' = [outFiles EXCEPT ![suites[side].outFile] =
                    WriteAt(@, suites[side].outOff,
                            [suite |-> side, test |-> tests[ti]])]
               /\ suites' = [suites EXCEPT ![side].outOff = @ + 1]
          ELSE UNCHANGED <<outFiles, suites>>
       /\ IF runSingleBench(out) # NoErr
          THEN /\ runErr' = runSingleBench(out)
               /\ pc' = "close"
               /\ UNCHANGED <<tj, side>>
          ELSE /\ side' = StepAfter(side, tj).side
               /\ tj' = StepAfter(side, tj).tj
               /\ UNCHANGED <<runErr, pc>>
  /\ UNCHANGED <<head, binDirs, artDirs, exitCode, prev, argv, origHead,
                 flagVars, restoreRef, bi, buildVars, common, tests, ti>>

\* runbenchcmpes, lines 191-193 and 209: the inner loop ends, next test.
RunNextTest ==
  /\ pc = "run"
  /\ ti <= Len(tests)
  /\ tj >= itersPerTest
  /\ ti' = ti + 1
  /\ tj' = 0
  /\ UNCHANGED <<worldVars, pc, exitCode, prev, argv, origHead, flagVars,
                 suites, runErr, restoreRef, bi, buildVars, common, tests,
                 side, lastExit, log>>

\* runbenchcmpes, line 211: the outer loop ends.
RunDone ==
  /\ pc = "run"
  /\ ti > Len(tests)
  /\ pc' = "report"
  /\ UNCHANGED <<worldVars, exitCode, prev, argv, origHead, flagVars, suites,
                 runErr, restoreRef, bi, buildVars, runVars, log>>

\* run, line 129: processBenchOutput seeks both output files to their
\* start, reads them to their end and prints the tables, or with --sheets
\* uploads them, which may fail.
Report ==
  /\ pc = "report"
  /\ log' = Append(log, Event("report", outFiles[suites[bs1].outFile],
                              outFiles[suites[bs2].outFile]))
  /\ suites' = [s \in Suites |->
                  [suites[s] EXCEPT !.outOff = Len(outFiles[suites[s].outFile])]]
  /\ \E ok \in BOOLEAN : runErr' = IF ok THEN NoErr ELSE "sheet error"
  /\ pc' = "close"
  /\ UNCHANGED <<worldVars, exitCode, prev, argv, origHead, flagVars,
                 restoreRef, bi, buildVars, runVars>>

\* A variant of deferredCloses in which only the old suite's is deferred.
deferredClosesOldOnly == <<"old">>

\* run, lines 115-116: the suites whose close is deferred, in the order the
\* deferred calls run (last deferred first).
deferredCloses == <<"new", "old">>

\* run, lines 115-116: the deferred closes, each closing the file its suite
\* holds (none when outFile is nil).
Close ==
  /\ pc = "close"
  /\ log' = log \o [i \in 1..Len(deferredCloses) |->
                      Event("close", deferredCloses[i],
                            suites[deferredCloses[i]].outFile)]
  /\ pc' = "return"
  /\ UNCHANGED <<worldVars, exitCode, prev, argv, origHead, flagVars, suites,
                 runErr, restoreRef, bi, buildVars, runVars>>

\* ------------------------------------------------------------ the program

Next ==
  \/ RunStart
  \/ ParseRefs
  \/ MakeSuites
  \/ BuildBenchesStart
  \/ BuildCall
  \/ BuildStep
  \/ BuildReturned
  \/ Restore
  \/ Intersect
  \/ RunSingleBench
  \/ RunNextTest
  \/ RunDone
  \/ Report
  \/ Close
  \/ MainExit

Spec == Init /\ [][Next]_vars

\* --------------------------------------------- build calls on a shared cache

\* Every path a bin directory may have.
BinPaths ==
  {testBinDir(ShortHash[c], a) :
     c \in Commits, a \in SeqsUpTo(Patterns, MaxArgs)}

\* Two processes, one after the other on one disk whose cache is empty at
\* first, each about to call build (line 117); in all two build calls are
\* made, on either suite of the process that is running.
InitBuild ==
  /\ head = "main"
  /\ origHead = head
  /\ binDirs = [p \in BinPaths |-> NoDir]
  /\ artDirs = {}
  /\ outFiles = << >>
  /\ InitIdle
  /\ pc = "start1"
  /\ oldRef = ShortHash[1]
  /\ newRef \in {ShortHash[1], ShortHash[2]}
  /\ pkgFilter = <<>>
  /\ argv = <<>>
  /\ postChck \in {"", "make buildshort"}
  /\ itersPerTest = 0

\* A process starts and comes to line 117: the scope sorted, the suites made.
HStart ==
  /\ pc \in {"start1", "start2"}
  /\ \E args \in SeqsUpTo(Patterns, MaxArgs) \ {<<>>} :
       /\ argv' = args
       /\ pkgFilter' = sortScope(args)
  /\ suites' = [s \in Suites |->
                  makeBenchSuite(IF s = "old" THEN oldRef ELSE newRef)]
  /\ pc' = IF pc = "start1" THEN "call1" ELSE "call2"
  /\ log' = <<>>
  /\ prev' = [prev EXCEPT !.suite = ""]
  /\ UNCHANGED <<worldVars, exitCode, origHead, oldRef, newRef, defaulted,
                 postChck, itersPerTest, runErr, restoreRef, bi, buildVars,
                 runVars>>

\* The process calls build on one of its suites.
HCall ==
  /\ pc \in {"call1", "call2"}
  /\ bpc = "idle"
  /\ cur' \in Suites
  /\ bpc' = "entry"
  /\ created' = FALSE
  /\ err' = NoErr
  /\ pkgs' = <<>>
  /\ pkgIdx' = 1
  /\ log' = <<Event("build", cur', "")>>
  /\ UNCHANGED <<worldVars, pc, exitCode, prev, argv, origHead, flagVars,
                 suites, runErr, restoreRef, bi, runVars>>

\* The call is over; the process goes on to the second call, or ends and
\* another starts.
HReturn ==
  /\ pc \in {"call1", "call2"}
  /\ bpc \in {"returned", "panicked"}
  /\ bpc' = "idle"
  /\ prev' = [suite |-> cur, ref |-> suites[cur].ref, argv |-> argv,
              binDir |-> suites[cur].binDir, created |-> created,
              err |-> IF bpc = "panicked" THEN "panic" ELSE err,
              testFiles |-> suites[cur].testFiles]
  /\ pc' \in IF pc = "call1" THEN {"call2", "start2"} ELSE {"done"}
  /\ UNCHANGED <<worldVars, exitCode, argv, origHead, flagVars, suites,
                 runErr, restoreRef, bi, cur, created, err, pkgs, pkgIdx,
                 runVars, log>>

NextBuild == HStart \/ HCall \/ BuildStep \/ HReturn

SpecBuild == InitBuild /\ [][NextBuild]_vars

\* ------------------------------------------------- the fileSet operations

\* Two suites whose builds registered any files.
InitSets ==
  /\ head = "main"
  /\ origHead = head
  /\ binDirs = << >>
  /\ artDirs = {}
  /\ outFiles = << >>
  /\ exitCode = -1
  /\ defaulted = {}
  /\ \E A \in SUBSET Names, B \in SUBSET Names :
       suites = [s \in Suites |->
                   [makeBenchSuite(IF s = "old" THEN ShortHash[1]
                                   ELSE ShortHash[2])
                      EXCEPT !.testFiles = IF s = "old" THEN A ELSE B]]
  /\ runErr = NoErr
  /\ restoreRef = ""
  /\ bi = 1
  /\ bpc = "idle"
  /\ cur = "old"
  /\ created = FALSE
  /\ err = NoErr
  /\ pkgs = <<>>
  /\ pkgIdx = 1
  /\ common = {}
  /\ tests = <<>>
  /\ ti = 1
  /\ tj = 0
  /\ side = "old"
  /\ lastExit = [started |-> TRUE, code |-> 0]
  /\ log = <<>>
  /\ prev = NoCall
  /\ pc = "sets"
  /\ oldRef = ShortHash[1]
  /\ newRef = ShortHash[2]
  /\ pkgFilter = <<>>
  /\ argv = <<>>
  /\ postChck = ""
  /\ itersPerTest = 0

Other(s) == IF s = "old" THEN "new" ELSE "old"

\* cur.intersectTests(other), either suite the receiver.
SetsIntersect ==
  /\ pc = "sets"
  /\ \E recv \in Suites :
       \E o \in Orders(suites[recv].testFiles) :
         LET r == intersectTests(o, suites[recv].testFiles,
                                 suites[Other(recv)].testFiles)
         IN  /\ cur' = recv
             /\ common' = r.intersect
             /\ suites' = [suites EXCEPT
                  ![recv].testFiles = r.testFiles,
                  ![Other(recv)].testFiles = r.testFiles2]
  /\ pc' = "sort"
  /\ UNCHANGED <<worldVars, exitCode, prev, argv, origHead, flagVars, runErr,
                 restoreRef, bi, bpc, created, err, pkgs, pkgIdx, tests, ti,
                 tj, side, lastExit, log>>

\* common.sorted(), called any number of times.
SetsSorted ==
  /\ pc \in {"sort", "sorted"}
  /\ \E o \in Orders(common) : tests' = sorted(o)
  /\ pc' = "sorted"
  /\ UNCHANGED <<worldVars, exitCode, prev, argv, origHead, flagVars, suites,
                 runErr, restoreRef, bi, buildVars, common, ti, tj, side,
                 lastExit, log>>

NextSets == SetsIntersect \/ SetsSorted

SpecSets == InitSets /\ [][NextSets]_vars

\* ============================================================== properties

\* The binary runs the process has made, in order.
Execs(lg) == SelectSeq(lg, LAMBDA e : e.op = "exec")

IsPrefix(x, y) == Len(x) <= Len(y) /\ SubSeq(y, 1, Len(x)) = x

\* The runs of an ordered test list ts with n iterations per test: test by
\* test, n times the pair (old, new); nothing when n < 1.
Schedule(ts, n) ==
  IF n < 1 THEN <<>>
  ELSE [k \in 1..(2 * n * Len(ts)) |->
          Event("exec", IF k % 2 = 1 THEN "old" ELSE "new",
                ts[((k - 1) \div (2 * n)) + 1])]

\* Whether runSingleBench treats the way a binary ended as fatal.
Fatal(out) == ~out.started \/ out.code \notin {0, 1}

\* C1: the binary runs made so far are always the first runs of the
\* interleaved schedule old(t1) new(t1) ... (itersPerTest times) old(t2) ...,
\* and they are the whole schedule, 2 * itersPerTest * Len(tests) runs, when
\* runbenchcmpes returns without a fatal run.
C1_InterleavingOrder ==
  /\ IsPrefix(Execs(log), Schedule(tests, itersPerTest))
  /\ pc = "report" => Execs(log) = Schedule(tests, itersPerTest)

\* Two tests, two iterations each, all eight runs made.
C1_Witness ==
  /\ pc = "report"
  /\ tests = <<"pkg_a", "pkg_b">>
  /\ itersPerTest = 2
  /\ Execs(log) =
       <<Event("exec", "old", "pkg_a"), Event("exec", "new", "pkg_a"),
         Event("exec", "old", "pkg_a"), Event("exec", "new", "pkg_a"),
         Event("exec", "old", "pkg_b"), Event("exec", "new", "pkg_b"),
         Event("exec", "old", "pkg_b"), Event("exec", "new", "pkg_b")>>

\* C5: after a binary that exited with code 0 or 1 runbenchcmpes raises no
\* error and goes on with the schedule; after any other failure of a binary
\* (another exit code, or it could not be started) run returns an error,
\* main exits with code 1, and no further binary is run.
C5_State ==
  Execs(log) # <<>> =>
    IF Fatal(lastExit)
    THEN /\ runErr # NoErr
         /\ pc \in {"close", "return", "exited"}
         /\ pc = "exited" => exitCode = 1
    ELSE /\ pc \in {"run", "report"} => runErr = NoErr
         /\ Len(Execs(log)) < Len(Schedule(tests, itersPerTest)) =>
              pc = "run" /\ runErr = NoErr

C5_ExitCodeTolerance ==
  /\ []C5_State
  /\ [][(Execs(log) # <<>> /\ Fatal(lastExit)) => Execs(log') = Execs(log)]_vars

\* The first binary exited with code 1; the run goes on, the new suite's
\* binary is next.
C5_Witness ==
  /\ Len(Execs(log)) = 1
  /\ lastExit = [started |-> TRUE, code |-> 1]
  /\ runErr = NoErr
  /\ pc = "run"
  /\ side = "new"
  /\ itersPerTest = 2

\* The steps of build and of buildBenches' loop, as logged.
BuildOps ==
  {"build", "mkdir", "open", "stat", "mkdirbin", "checkout", "compile",
   "rmbin", "built"}

\* The positions in the log of the deferred checkout of line 175.
Restores(lg) == {i \in 1..Len(lg) : lg[i].op = "restore"}

\* buildBenches was called and has returned.
BuildBenchesReturned ==
  \/ pc \in {"intersect", "run", "report"}
  \/ pc \in {"close", "return", "exited"} /\ suites["old"].ref # ""

\* buildBenches came to its loop: getCurSymbolicRef returned no error.
BuildLoopEntered == \E i \in 1..Len(log) : log[i].op = "build"

\* C4 as stated: when the process started on a branch, then once
\* buildBenches has returned the branch has been checked out again exactly
\* once, after every build step, and it is the checked-out ref.
C4_AsStated ==
  (origHead \in Branches /\ BuildBenchesReturned) =>
    /\ Cardinality(Restores(log)) = 1
    /\ \A i \in Restores(log) :
         /\ log[i].a = origHead
         /\ \A j \in (i + 1)..Len(log) : log[j].op \notin BuildOps
    /\ head = origHead

\* C4, amended: the restoring checkout is never made before buildBenches
\* returns and never twice; when the process started on a branch and
\* getCurSymbolicRef returned no error, then once buildBenches has returned
\* the checkout of that branch has been attempted exactly once, after every
\* build step, and if it succeeded the branch is the checked-out ref.
C4_CheckoutRestoration ==
  /\ Cardinality(Restores(log)) <= 1
  /\ pc \in {"buildBenches", "buildLoop", "restore"} => Restores(log) = {}
  /\ (origHead \in Branches /\ BuildBenchesReturned /\ BuildLoopEntered) =>
       /\ Cardinality(Restores(log)) = 1
       /\ \A i \in Restores(log) :
            /\ log[i].a = origHead
            /\ \A j \in (i + 1)..Len(log) : log[j].op \notin BuildOps
            /\ log[i].b = "ok" => head = origHead

\* Both suites were built from source, each checking out its ref, and the
\* branch is checked out again.
C4_Witness ==
  /\ pc = "intersect"
  /\ origHead = "main"
  /\ head = "main"
  /\ Cardinality({i \in 1..Len(log) : log[i].op = "checkout"}) = 2
  /\ log[Len(log)] = Event("restore", "main", "ok")

\* The short hash of a commit, "" for none.
ShortOf(c) == IF c \in Commits THEN ShortHash[c] ELSE ""

\* C10: when parseGitRefs succeeds, newRef is the short form of the given
\* --new, or of the checked-out revision when none was given, and oldRef is
\* the short form of the given --old, or of the parent of that newRef when
\* none was given.
C10_RefDefaulting ==
  [][(pc = "parse" /\ pc' = "suites") =>
       LET n == IF newRef = "" THEN CommitOfHead(head)
                ELSE Resolve(newRef, head)
           o == IF oldRef = "" THEN ParentOf(n) ELSE Resolve(oldRef, head)
       IN  /\ newRef' = ShortOf(n)
           /\ oldRef' = ShortOf(o)]_vars

\* Neither ref given on branch main (commit 3): new is 3, old its parent 2.
C10_Witness ==
  /\ pc = "suites"
  /\ defaulted = Suites
  /\ head = "main"
  /\ newRef = "3333"
  /\ oldRef = "2222"

\* The current build call has looked for its bin directory (line 315).
Statted == \E i \in 1..Len(log) : log[i].op = "stat"

\* The current build call has checked out, compiled or made a bin directory.
Rebuilt ==
  \E i \in 1..Len(log) : log[i].op \in {"mkdirbin", "checkout", "compile"}

\* After the bin directory was made, every later step of build succeeded.
AllStepsDone == pkgs # <<>> /\ pkgIdx > Len(pkgs)

C3_CacheIdempotence ==
  (pc = "call2" /\ bpc # "idle" /\ prev.err = NoErr
     /\ prev.ref = suites[cur].ref /\ prev.argv = argv) =>
    /\ ~Rebuilt
    /\ ~created
    /\ (bpc = "returned" /\ err = NoErr) =>
         suites[cur].testFiles = prev.testFiles

\* The first call built both binaries from source; the next process's call
\* found them.
C3_Witness ==
  /\ pc = "call2"
  /\ prev.created
  /\ prev.err = NoErr
  /\ prev.suite = ""
  /\ prev.ref = suites[cur].ref
  /\ prev.argv = argv
  /\ prev.testFiles = {"pkg_a", "pkg_b"}
  /\ bpc = "returned"
  /\ err = NoErr
  /\ suites[cur].testFiles = {"pkg_a", "pkg_b"}

\* C6 as stated: a build call on a suite on which the call before returned
\* no error panics, and has done nothing else.
C6_AsStated ==
  (pc = "call2" /\ prev.suite = cur /\ prev.err = NoErr
     /\ bpc \notin {"idle", "entry"}) =>
    /\ bpc = "panicked"
    /\ log = <<Event("build", cur, "")>>

\* Whether y is x in another order.
IsPerm(x, y) ==
  /\ Len(x) = Len(y)
  /\ \A e \in Range(x) \cup Range(y) :
       Cardinality({i \in 1..Len(x) : x[i] = e})
         = Cardinality({i \in 1..Len(y) : y[i] = e})

\* C9: a build call for the same ref as an earlier call, the arguments of
\* its process those of the earlier one in any order, uses the same bin
\* directory; when the earlier call succeeded this one rebuilds nothing,
\* and when it succeeds its testFiles is the earlier call's.
C9_HashStability ==
  (pc = "call2" /\ bpc # "idle" /\ Statted /\ prev.binDir # NoPath
     /\ prev.ref = suites[cur].ref /\ IsPerm(prev.argv, argv)) =>
    /\ suites[cur].binDir = prev.binDir
    /\ prev.err = NoErr =>
         /\ ~Rebuilt
         /\ (bpc = "returned" /\ err = NoErr) =>
              suites[cur].testFiles = prev.testFiles

\* Built for ./pkg/b ./pkg/a, then found by a process given ./pkg/a ./pkg/b.
C9_Witness ==
  /\ pc = "call2"
  /\ prev.argv = <<"./pkg/b", "./pkg/a">>
  /\ argv = <<"./pkg/a", "./pkg/b">>
  /\ prev.created
  /\ prev.err = NoErr
  /\ prev.ref = suites[cur].ref
  /\ suites[cur].binDir = prev.binDir
  /\ bpc = "returned"
  /\ err = NoErr
  /\ ~created
  /\ suites[cur].testFiles = {"pkg_a", "pkg_b"}

\* C7: intersectTests returns exactly the files in both suites' testFiles,
\* whichever suite is the receiver and in whatever order its map is
\* iterated, and changes neither suite's testFiles.
C7_IntersectionCorrectness ==
  [][pc = "sets" =>
       /\ common' = suites["old"].testFiles \cap suites["new"].testFiles
       /\ suites' = suites
       /\ \A recv \in Suites : \A o \in Orders(suites[recv].testFiles) :
            intersectTests(o, suites[recv].testFiles,
                           suites[Other(recv)].testFiles).intersect = common'
    ]_vars

\* {a, ab} and {ab, b}, the new suite the receiver: {ab}.
C7_Witness ==
  /\ pc = "sort"
  /\ cur = "new"
  /\ suites["old"].testFiles = {"pkg_a", "pkg_ab"}
  /\ suites["new"].testFiles = {"pkg_ab", "pkg_b"}
  /\ common = {"pkg_ab"}

\* x is before y in byte-wise lexicographic order.
LexBefore(x, y) ==
  \E k \in 0..Len(x) :
    /\ k <= Len(y)
    /\ SubSeq(x, 1, k) = SubSeq(y, 1, k)
    /\ k < Len(y)
    /\ k < Len(x) => x[k + 1] < y[k + 1]

\* C8: sorted returns each element of the set once, in strictly ascending
\* lexicographic order, and the same sequence on every call.
C8_State ==
  pc = "sorted" =>
    /\ Len(tests) = Cardinality(common)
    /\ Range(tests) = common
    /\ \A i \in 1..Len(tests) : \A j \in (i + 1)..Len(tests) :
         LexBefore(Chars(tests[i]), Chars(tests[j]))

C8_SortedOutput ==
  /\ []C8_State
  /\ [][(pc = "sorted" /\ pc' = "sorted") => tests' = tests]_vars

\* The three names, sorted: a name before the longer name it begins.
C8_Witness ==
  /\ pc = "sorted"
  /\ common = {"pkg_a", "pkg_ab", "pkg_b"}
  /\ tests = <<"pkg_a", "pkg_ab", "pkg_b">>

\* The ops of the log that act on the working tree, the disk or a binary.
EffectOps == BuildOps \cup {"restore", "exec"}

\* The git helpers parseGitRefs has called for oldRef.
OldRefCalls(lg) ==
  {i \in 1..Len(lg) :
     /\ lg[i].op = "git"
     /\ lg[i].a \in {"getPrevRef", "shortenRef old", "checkValidRef old"}}

\* --new, respectively --old, was given and git does not know it.
InvalidNew ==
  newRef # "" /\ ~checkValidRef(shortenRef(newRef, head), head)
InvalidOld ==
  oldRef # "" /\ ~checkValidRef(shortenRef(oldRef, head), head)

\* C11: when a given ref does not validate, parseGitRefs returns an error
\* and run returns with it, the disk and the working tree untouched; when
\* newRef is the invalid one no git helper is called for oldRef.  And when
\* run has returned an error before the suites were made, nothing has been
\* checked out, created, opened or executed, and main exits with code 1.
C11_Step ==
  (pc = "parse" /\ (InvalidNew \/ InvalidOld)) =>
    /\ pc' = "return"
    /\ runErr' # NoErr
    /\ worldVars' = worldVars
    /\ InvalidNew => OldRefCalls(log') = {}

C11_State ==
  (pc \in {"return", "exited"} /\ runErr # NoErr /\ suites["old"].ref = "") =>
    /\ head = origHead
    /\ binDirs = << >>
    /\ artDirs = {}
    /\ outFiles = << >>
    /\ \A i \in 1..Len(log) : log[i].op \notin EffectOps
    /\ pc = "exited" => exitCode = 1

C11_InvalidRefFatal == []C11_State /\ [][C11_Step]_vars

\* --new bogus: the process has exited with code 1 after validating newRef.
C11_Witness ==
  /\ pc = "exited"
  /\ exitCode = 1
  /\ runErr = "invalid git ref"
  /\ log = <<Event("git", "shortenRef new", ""),
             Event("git", "checkValidRef new", "")>>

\* The positions in the log of processBenchOutput.
Reports(lg) == {i \in 1..Len(lg) : lg[i].op = "report"}

\* The build calls that have returned, with what they returned.
Builts(lg) == SelectSeq(lg, LAMBDA e : e.op = "built")

\* Ref resolution, a build or a benchmark run has ended in a fatal error.
FatalSeen ==
  \/ pc \in {"return", "exited"} /\ suites["old"].ref = "" /\ runErr # NoErr
  \/ \E i \in 1..Len(log) : log[i].op = "built" /\ log[i].b # NoErr
  \/ Execs(log) # <<>> /\ Fatal(lastExit)

\* C12: once ref resolution, a build or a benchmark run has ended in a fatal
\* error, processBenchOutput is never called and the process exits with
\* code 1; processBenchOutput is called at most once, and only after both
\* builds returned no error and all runs of the schedule were made; the
\* exit code is 0 exactly when run returned no error.
C12_NoReportOnFatal ==
  /\ FatalSeen =>
       /\ Reports(log) = {}
       /\ runErr # NoErr
       /\ pc = "exited" => exitCode = 1
  /\ Cardinality(Reports(log)) <= 1
  /\ Reports(log) # {} =>
       /\ Builts(log) = <<Event("built", "old", NoErr),
                          Event("built", "new", NoErr)>>
       /\ Execs(log) = Schedule(tests, itersPerTest)
       /\ \A i \in Reports(log) : \A j \in 1..Len(log) :
            log[j].op \in {"exec", "built"} => j < i
  /\ pc = "exited" => (exitCode = 0 <=> runErr = NoErr)

\* The third benchmark run ended with exit code 2: no report, exit code 1.
C12_Witness ==
  /\ pc = "exited"
  /\ exitCode = 1
  /\ Len(Execs(log)) = 3
  /\ lastExit = [started |-> TRUE, code |-> 2]
  /\ Reports(log) = {}

\* The chunks suite s's benchmark runs have written: one for each of its
\* runs that was started, in order.
Written(s) ==
  LET ex == Execs(log)
      n == IF ex # <<>> /\ ~lastExit.started THEN Len(ex) - 1 ELSE Len(ex)
      mine == SelectSeq(SubSeq(ex, 1, n), LAMBDA e : e.a = s)
  IN  [i \in 1..Len(mine) |-> [suite |-> s, test |-> mine[i].b]]

\* Both suites hold an open output file.
BothOpen == \A s \in Suites : suites[s].outFile # <<>>

\* C13 as stated: during the run phase and at the report each suite's
\* output file holds exactly what that suite's own runs have written, in
\* order: nothing of the other suite's, nothing overwritten or lost.
C13_AsStated ==
  (BothOpen /\ pc \in {"run", "report", "close", "return", "exited"}) =>
    \A s \in Suites : outFiles[suites[s].outFile] = Written(s)

\* --old and --new resolve to the same revision: after the first two runs
\* the one file both suites opened holds the new suite's output only.
C13_Overwritten ==
  /\ pc = "run"
  /\ suites["old"].ref = suites["new"].ref
  /\ suites["old"].outFile = suites["new"].outFile
  /\ Len(Execs(log)) = 2
  /\ lastExit.started
  /\ outFiles[suites["old"].outFile] = <<[suite |-> "new", test |-> tests[1]]>>

\* The same, for two suites whose refs differ.
C13_DistinctRefs ==
  (BothOpen /\ pc \in {"run", "report", "close", "return", "exited"}
     /\ suites["old"].ref # suites["new"].ref) =>
    /\ suites["old"].outFile # suites["new"].outFile
    /\ \A s \in Suites : outFiles[suites[s].outFile] = Written(s)

\* The positions in the log of suite s's close.
Closes(s) == {i \in 1..Len(log) : log[i].op = "close" /\ log[i].a = s}

\* C14: no suite is closed before run is about to return and none twice;
\* when run has returned after it made the suites, each suite has been
\* closed exactly once, after every open, benchmark run and report, and
\* the file closed is the one the suite's build opened, if it opened one.
C14_CloseExactlyOnce ==
  /\ \A s \in Suites : Cardinality(Closes(s)) <= 1
  /\ pc \notin {"return", "exited"} => \A s \in Suites : Closes(s) = {}
  /\ (pc \in {"return", "exited"} /\ suites["old"].ref # "") =>
       \A s \in Suites :
         /\ Cardinality(Closes(s)) = 1
         /\ \A i \in Closes(s) :
              /\ log[i].b = suites[s].outFile
              /\ \A j \in 1..Len(log) :
                   /\ log[j].op \in {"open", "exec", "report"} => j < i
                   /\ (log[j].op = "open" /\ log[j].a = s) =>
                        log[j].b = log[i].b

\* The new suite's build failed after the old suite's succeeded: both are
\* closed, the new suite without a file.
C14_Witness ==
  /\ pc = "return"
  /\ Builts(log) = <<Event("built", "old", NoErr),
                     Event("built", "new", "mkdir fails")>>
  /\ suites["old"].outFile # <<>>
  /\ suites["new"].outFile = <<>>
  /\ \A s \in Suites : Cardinality(Closes(s)) = 1

\* The log of the build call that is running or was the last to run.
CurBuildLog ==
  LET starts == {i \in 1..Len(log) : log[i].op = "build"}
  IN  IF starts = {} THEN <<>>
      ELSE SubSeq(log, CHOOSE i \in starts : \A j \in starts : j <= i,
                  Len(log))

\* The bin directory with a subdirectory that an earlier run may have left.
DirWithSubdir == [exists |-> TRUE, files |-> Bins, dirs |-> {"pkg_ab"}]

\* C15: a bin directory that holds a subdirectory is never deleted or
\* changed; a build that found one returns the unexpected-directory error
\* (or the error of reading the directory), having checked out, compiled,
\* made and removed nothing; and once a build has returned the
\* unexpected-directory error run returns it, no benchmark binary is run,
\* nothing is reported and main exits with code 1.
C15_UnexpectedDirectory ==
  /\ \A path \in DOMAIN binDirs :
       binDirs[path].dirs # {} => binDirs[path] = DirWithSubdir
  /\ (bpc = "returned" /\ suites[cur].binDir \in DOMAIN binDirs
        /\ binDirs[suites[cur].binDir].dirs # {}) =>
       /\ err \in {"unexpected directory", "readdir failed"}
       /\ ~created
       /\ \A i \in 1..Len(CurBuildLog) :
            CurBuildLog[i].op \notin {"mkdirbin", "checkout", "compile", "rmbin"}
  /\ (\E i \in 1..Len(log) :
        log[i].op = "built" /\ log[i].b = "unexpected directory") =>
       /\ runErr = "unexpected directory"
       /\ Execs(log) = <<>>
       /\ Reports(log) = {}
       /\ pc \in {"restore", "close", "return", "exited"}
       /\ pc = "exited" => exitCode = 1

\* The new suite's build found a subdirectory after registering the file
\* sorted before it; the process has exited with code 1.
C15_Witness ==
  /\ pc = "exited"
  /\ exitCode = 1
  /\ Builts(log) = <<Event("built", "old", NoErr),
                     Event("built", "new", "unexpected directory")>>
  /\ binDirs[suites["new"].binDir] = DirWithSubdir
  /\ suites["new"].testFiles = {"pkg_a"}

\* The calls of build and their returns, in order.
BuildCalls(lg) == SelectSeq(lg, LAMBDA e : e.op \in {"build", "built"})

\* The old suite's build has returned an error.
OldBuildFailed ==
  \E i \in 1..Len(log) :
    log[i].op = "built" /\ log[i].a = "old" /\ log[i].b # NoErr

\* C16: build is called for the old suite first and for the new suite only
\* after the old suite's call returned no error; every step of a build lies
\* between its call and its return, and none is made once buildBenches'
\* loop is over.  When the old suite's build returned an
\* error, nothing is ever done for the new suite: no step of build, no
\* checkout but the old suite's, no artifacts directory, output file or bin
\* directory of its own; and the deferred checkout of the original branch
\* is still made once buildBenches returns.
C16_SequentialBuilds ==
  LET bb == BuildCalls(log)
  IN  /\ Len(bb) <= 4
      /\ Len(bb) >= 1 => bb[1] = Event("build", "old", "")
      /\ Len(bb) >= 2 => bb[2].op = "built" /\ bb[2].a = "old"
      /\ Len(bb) >= 3 => bb[2].b = NoErr /\ bb[3] = Event("build", "new", "")
      /\ Len(bb) >= 4 => bb[4].op = "built" /\ bb[4].a = "new"
      /\ pc = "buildLoop" =>
           \A i \in 1..Len(log) :
             log[i].op \in BuildOps \ {"build", "built", "checkout"} =>
               \E j \in 1..(i - 1) :
                 /\ log[j] = Event("build", log[i].a, "")
                 /\ \A k \in (j + 1)..i : log[k].op # "built"
      /\ (pc # "buildLoop" /\ log # <<>>) =>
           log[Len(log)].op \notin BuildOps \ {"built"}
      /\ OldBuildFailed =>
           /\ \A i \in 1..Len(log) :
                /\ log[i].op \in BuildOps => log[i].a # "new"
                /\ log[i].op = "checkout" => log[i].a = suites["old"].ref
           /\ Cardinality({i \in 1..Len(log) : log[i].op = "checkout"}) <= 1
           /\ suites["new"] = makeBenchSuite(suites["new"].ref)
           /\ artDirs \subseteq {suites["old"].artDir}
           /\ DOMAIN outFiles \subseteq {suites["old"].outFile}
           /\ DOMAIN binDirs \subseteq {suites["old"].binDir}
           /\ (origHead \in Branches /\ BuildBenchesReturned) =>
                Cardinality(Restores(log)) = 1

\* The old suite's build failed at a package after checking out its ref:
\* the new suite is untouched and the branch is checked out again.
C16_Witness ==
  /\ pc = "exited"
  /\ Builts(log) = <<Event("built", "old", "build failed")>>
  /\ origHead = "main"
  /\ head = "main"
  /\ \E i \in 1..Len(log) : log[i] = Event("restore", "main", "ok")
  /\ suites["new"].artDir = <<>>

\* How many runs of test t suite s has started.
Started(s, t) ==
  LET w == Written(s)
  IN  Cardinality({i \in 1..Len(w) : w[i].test = t})

\* C17: at every moment, for every test the old suite has started as many
\* runs as the new suite or one more; when runbenchcmpes returns without an
\* error each suite has started itersPerTest runs of each test, and
\* 2 * Len(tests) * itersPerTest runs were made in all; with itersPerTest
\* below 1 or no test, no binary is run.
C17_Balance ==
  /\ Execs(log) # <<>> =>
       \A t \in Names : Started("old", t) - Started("new", t) \in {0, 1}
  /\ (pc = "report" /\ itersPerTest >= 1) =>
       /\ \A t \in Range(tests) : \A s \in Suites :
            Started(s, t) = itersPerTest
       /\ Len(Execs(log)) = 2 * Len(tests) * itersPerTest
  /\ (itersPerTest < 1 \/ tests = <<>>) => Execs(log) = <<>>

\* The new suite's binary could not be started in the second iteration:
\* the run is aborted with two old runs and one new run started.
C17_Witness ==
  /\ pc = "exited"
  /\ ~lastExit.started
  /\ Len(Execs(log)) = 4
  /\ Started("old", tests[1]) = 2
  /\ Started("new", tests[1]) = 1

\* C18: every binary run is in the testFiles of both suites, as their
\* builds left them; the tests run are exactly the files in both; and the
\* runs are in ascending lexicographic order of the binary's name.
C18_CommonTestsInOrder ==
  LET ex == Execs(log)
      both == suites["old"].testFiles \cap suites["new"].testFiles
  IN  /\ \A i \in 1..Len(ex) : ex[i].b \in both
      /\ pc \in {"run", "report"} => Range(tests) = both
      /\ \A i \in 1..Len(ex) : \A j \in (i + 1)..Len(ex) :
           ex[i].b = ex[j].b \/ LexBefore(Chars(ex[i].b), Chars(ex[j].b))

\* pkg_b was built for one revision only: pkg_a alone is run.
C18_Witness ==
  /\ pc = "report"
  /\ "pkg_b" \in suites["old"].testFiles \cup suites["new"].testFiles
  /\ "pkg_b" \notin suites["old"].testFiles \cap suites["new"].testFiles
  /\ Len(Execs(log)) = 4
  /\ \A i \in 1..4 : Execs(log)[i].b = "pkg_a"

\* The build call that is running has made its bin directory (line 331).
MadeBinDir ==
  \E i \in 1..Len(CurBuildLog) : CurBuildLog[i].op = "mkdirbin"

\* C19: in every step, a bin directory the disk was seen to hold is
\* changed only if it is the bin directory of the build call that is
\* running and that call made it, and it is deleted only as that call
\* returns an error; so a bin directory found by a cache hit is never
\* deleted, and the bin directory of a suite whose build returned no error
\* stays, with its files, whatever the other suite's build does.
C19_Step ==
  \A path \in DOMAIN binDirs :
    /\ (binDirs[path].exists /\ binDirs'[path] # binDirs[path]) =>
         /\ path = suites[cur].binDir
         /\ MadeBinDir
    /\ (binDirs[path].exists /\ ~binDirs'[path].exists) =>
         /\ bpc' = "returned"
         /\ err' # NoErr

C19_State ==
  \A i \in 1..Len(log) :
    (log[i].op = "built" /\ log[i].b = NoErr) =>
      /\ binDirs[suites[log[i].a].binDir].exists
      /\ binDirs[suites[log[i].a].binDir].files = suites[log[i].a].testFiles

C19_RollbackFrame == []C19_State /\ [][C19_Step]_vars

\* The old suite was built from source; the new suite's build then failed
\* and removed its own bin directory only.
C19_Witness ==
  /\ pc = "exited"
  /\ Builts(log) = <<Event("built", "old", NoErr),
                     Event("built", "new", "build failed")>>
  /\ \E i \in 1..Len(log) : log[i] = Event("mkdirbin", "old", "")
  /\ \E i \in 1..Len(log) : log[i] = Event("rmbin", "new", "")
  /\ binDirs[suites["old"].binDir].files = {"pkg_a", "pkg_b"}
  /\ ~binDirs[suites["new"].binDir].exists

====
